---- MODULE Spec2Model ----
(***************************************************************************)
(* The streaming action console of the LoStack dashboard: class            *)
(* TerminalModal of app/static/js/main.js, the single global instance      *)
(* terminalModal, the EventSource connections it opens and the DOM of the  *)
(* terminal modal it drives; with it two neighbours of the console: the    *)
(* file browser of blueprints/file_browser/static/js/file_browser.js and   *)
(* the service deletion dialog of unnamed/part_000, which launches the     *)
(* console.                                                                *)
(*                                                                         *)
(* The page runs on one event loop: every handler below is one atomic      *)
(* action.  A state of the model is the state of the page between two      *)
(* handlers.                                                               *)
(***************************************************************************)
EXTENDS Integers, Sequences, FiniteSets, Bags, TLC

\* ------------------------------------------------------------------ bounds
\* launches (calls of TerminalModal.launch) per page load
MaxLaunches == 2
\* messages delivered by the transport per page load
MaxChunks == 2

\* calls of copyToClipboard per page load
MaxCopies == 2

\* stream endpoints a caller may pass to launch
Urls == {"E1", "E2"}

\* ----------------------------------------------------------- DOM geometry
\* height in px of one rendered <div> of the log, and of the log's viewport:
\* a single entry already overflows the viewport by more than the tolerance
LineHeight == 9
ClientHeight == 3
\* the tolerance of the scroll listener: scrollTop + clientHeight >= scrollHeight - 5
ScrollTolerance == 5

VARIABLES
    es,               \* this.es: index into conns of the current EventSource, 0 = null
    conns,            \* every EventSource created since page load, in creation order:
                      \*   [readyState in {"connecting","open","closed"}, closes = number of close() calls];
                      \*   the url goes to the transport only and is not part of the page's state
    log,              \* children of #modalLog, in document order (the transcript)
    isPaused,         \* this.isPaused
    messageBuffer,    \* this.messageBuffer
    streamEnded,      \* this.streamEnded
    reloadOnClose,    \* this.reloadOnClose
    autoscroll,       \* this.autoscroll
    toggleChecked,    \* #modalAutoscrollToggle.checked
    scrollTop,        \* #modalLog.scrollTop
    scrollEvt,        \* a scroll event of #modalLog is queued and not yet dispatched
    streamStatus,     \* #streamStatus.textContent
    listeners,        \* number of listener sets registered by setupEventListeners
    modalState,       \* the bootstrap modal: "hidden", "shown", "hiding" (hide() called, hidden.bs.modal not yet fired)
    reloadCalls,      \* number of location.reload() calls since page load
    openAtReload,     \* history: some location.reload() was called while this.es was not null
    sent,             \* number of messages the transport has delivered since page load
    unpaused,         \* history: the transcript the same events would have produced with no pause
    last,             \* history: the handler that ran last, [op, arg]
    buttonContent,    \* innerHTML of the control that calls launchTerminalWithButtonAnimation
    buttonTimers,     \* pending setTimeout callbacks of launchTerminalWithButtonAnimation, in
                      \*   firing order: the originalContent each one captured
    clipboardWrites,  \* navigator.clipboard.writeText promises of copyToClipboard not yet settled
    copyToast,        \* #modalCopyToast: "hidden" or "shown"
    \* the file browser page (blueprints/file_browser/static/js/file_browser.js)
    editor,            \* the CodeMirror instance: its text (editor.getValue()), Null when there is none
    originalContent,   \* originalContent
    hasUnsavedChanges, \* hasUnsavedChanges
    currentFile,       \* currentFile.filepath, Null when no file is selected
    pendingNavigation, \* pendingNavigation: [kind, to], kind "path" (a string), "function" (a closure
                       \*   over performFileSelection's arguments) or "none" (null)
    unsavedModalShown, \* #unsavedChangesModal is shown
    location,          \* the path parameter of window.location
    loads,             \* content fetches of showEditor in flight: a bag of file paths
    saves,             \* save fetches in flight: a bag of [filepath, filecontent, proceed]
    editorFile,        \* history: the file whose content response filled the editor
    \* the service deletion dialog of the services page (unnamed/part_000)
    deleteServiceUrl,  \* deleteServiceUrl, Null when null
    deleteServiceName, \* deleteServiceName, Null when null
    deleteModalShown,  \* #deleteServiceModal is shown
    shownUrl,          \* history: the deleteUrl of the most recent showDeleteConfirmation
    deleteLaunched     \* history: the calls of serviceActionWithTerminal made by the confirm
                       \*   listener since the most recent showDeleteConfirmation

vars == <<es, conns, log, isPaused, messageBuffer, streamEnded, reloadOnClose,
          autoscroll, toggleChecked, scrollTop, scrollEvt, streamStatus,
          listeners, modalState, reloadCalls, openAtReload, sent, unpaused, last,
          buttonContent, buttonTimers, clipboardWrites, copyToast,
          editor, originalContent, hasUnsavedChanges, currentFile,
          pendingNavigation, unsavedModalShown, location, loads, saves, editorFile,
          deleteServiceUrl, deleteServiceName, deleteModalShown, shownUrl,
          deleteLaunched>>

\* the page around the console: the triggering control and the copy toast
pageVars == <<buttonContent, buttonTimers, clipboardWrites, copyToast>>

\* the file browser page
fileVars == <<editor, originalContent, hasUnsavedChanges, currentFile,
              pendingNavigation, unsavedModalShown, location, loads, saves, editorFile>>

\* the service deletion dialog
deleteVars == <<deleteServiceUrl, deleteServiceName, deleteModalShown, shownUrl,
                deleteLaunched>>

\* the console and the page around it, without the history record of the last handler
consoleVars == <<es, conns, log, isPaused, messageBuffer, streamEnded, reloadOnClose,
                 autoscroll, toggleChecked, scrollTop, scrollEvt, streamStatus,
                 listeners, modalState, reloadCalls, openAtReload, sent, unpaused,
                 pageVars>>

\* ---------------------------------------------------------------- helpers
Max(a, b) == IF a >= b THEN a ELSE b

\* the payload of handleStreamEnd's synthetic message '\x1b[32m\nStream completed\x1b[0m'
Marker == [from |-> "console", n |-> 0]

\* the n-th message of the page, delivered by connection c.  The payload is
\* labelled with what the claims need of its origin: whether c was, at the
\* delivery, the connection opened by the most recent launch.
Chunk(c, n) == [from |-> IF c = Len(conns) THEN "current" ELSE "superseded", n |-> n]

\* AnsiUp.ansi_to_html followed by the creation of the <div> that holds it
ansi_to_html(data) == [div |-> data]

IsMarker(e) == e.div = Marker
IsChunk(e) == e.div # Marker

\* payloads of the chunk entries of a transcript, in order
ChunkEntries(l) == [i \in 1..Len(SelectSeq(l, IsChunk)) |-> SelectSeq(l, IsChunk)[i].div]
MarkerCount(l) == Len(SelectSeq(l, IsMarker))

\* #modalLog.scrollHeight and the largest scrollTop the browser allows
scrollHeight(l) == Max(Len(l) * LineHeight, ClientHeight)
MaxScrollTop(l) == scrollHeight(l) - ClientHeight

\* the fields of the TerminalModal instance and of the DOM it touches
State == [es |-> es, conns |-> conns, log |-> log, isPaused |-> isPaused,
          messageBuffer |-> messageBuffer, streamEnded |-> streamEnded,
          reloadOnClose |-> reloadOnClose, autoscroll |-> autoscroll,
          toggleChecked |-> toggleChecked, scrollTop |-> scrollTop,
          scrollEvt |-> scrollEvt, streamStatus |-> streamStatus,
          listeners |-> listeners, modalState |-> modalState,
          reloadCalls |-> reloadCalls, openAtReload |-> openAtReload]

Apply(s) ==
    /\ es' = s.es
    /\ conns' = s.conns
    /\ log' = s.log
    /\ isPaused' = s.isPaused
    /\ messageBuffer' = s.messageBuffer
    /\ streamEnded' = s.streamEnded
    /\ reloadOnClose' = s.reloadOnClose
    /\ autoscroll' = s.autoscroll
    /\ toggleChecked' = s.toggleChecked
    /\ scrollTop' = s.scrollTop
    /\ scrollEvt' = s.scrollEvt
    /\ streamStatus' = s.streamStatus
    /\ listeners' = s.listeners
    /\ modalState' = s.modalState
    /\ reloadCalls' = s.reloadCalls
    /\ openAtReload' = s.openAtReload

\* an assignment to #modalLog.scrollTop: the browser clamps the value and
\* queues a scroll event when the position changed
SetScrollTop(s, v) ==
    LET t == IF v > MaxScrollTop(s.log) THEN MaxScrollTop(s.log) ELSE v
    IN  [s EXCEPT !.scrollTop = t, !.scrollEvt = s.scrollEvt \/ (t # s.scrollTop)]

\* EventSource.close()
CloseConn(s, c) ==
    [s EXCEPT !.conns[c].readyState = "closed", !.conns[c].closes = @ + 1]

\* ------------------------------------------------- TerminalModal methods
scrollToBottom(s) == SetScrollTop(s, scrollHeight(s.log))

\* appendMessage with insertBefore(firstChild) in place of appendChild
appendMessagePrepend(s, data) ==
    LET s1 == [s EXCEPT !.log = <<ansi_to_html(data)>> \o s.log]
    IN  IF s1.autoscroll THEN scrollToBottom(s1) ELSE s1

appendMessage(s, data) ==
    LET s1 == [s EXCEPT !.log = Append(s.log, ansi_to_html(data))]
    IN  IF s1.autoscroll THEN scrollToBottom(s1) ELSE s1

\* handleStreamEnd without its 'if (this.streamEnded) return' guard
handleStreamEndUnguarded(s) ==
    LET s1 == appendMessage([s EXCEPT !.streamEnded = TRUE], Marker)
        s2 == [s1 EXCEPT !.streamStatus = "Completed"]
        s3 == IF s2.es # 0 THEN [CloseConn(s2, s2.es) EXCEPT !.es = 0] ELSE s2
    IN  [s3 EXCEPT !.reloadOnClose = TRUE]

\* handleStreamEnd without its last statement 'this.reloadOnClose = true'
handleStreamEndKeepsFlag(s) ==
    IF s.streamEnded THEN s
    ELSE LET s1 == appendMessage([s EXCEPT !.streamEnded = TRUE], Marker)
             s2 == [s1 EXCEPT !.streamStatus = "Completed"]
         IN  IF s2.es # 0 THEN [CloseConn(s2, s2.es) EXCEPT !.es = 0] ELSE s2

handleStreamEnd(s) ==
    IF s.streamEnded THEN s
    ELSE LET s1 == appendMessage([s EXCEPT !.streamEnded = TRUE], Marker)
             s2 == [s1 EXCEPT !.streamStatus = "Completed"]
             s3 == IF s2.es # 0 THEN [CloseConn(s2, s2.es) EXCEPT !.es = 0] ELSE s2
         IN  [s3 EXCEPT !.reloadOnClose = TRUE]

\* the drain loop with pop() in place of shift(): newest chunk first
RECURSIVE DrainBufferLifo(_)
DrainBufferLifo(s) ==
    IF s.messageBuffer = <<>> THEN s
    ELSE DrainBufferLifo(appendMessage(
             [s EXCEPT !.messageBuffer = SubSeq(@, 1, Len(@) - 1)],
             s.messageBuffer[Len(s.messageBuffer)]))

\* the loop 'while (this.messageBuffer.length > 0) appendMessage(shift())'
RECURSIVE DrainBuffer(_)
DrainBuffer(s) ==
    IF s.messageBuffer = <<>> THEN s
    ELSE DrainBuffer(appendMessage([s EXCEPT !.messageBuffer = Tail(@)],
                                   Head(s.messageBuffer)))

togglePause(s) ==
    LET s1 == [s EXCEPT !.isPaused = ~ s.isPaused]
    IN  IF s1.isPaused THEN s1 ELSE DrainBuffer(s1)

\* closeAndReload without 'this.reloadOnClose = true'
closeOnly(s) ==
    [s EXCEPT !.modalState = IF @ = "shown" THEN "hiding" ELSE @]

\* streamEndTimeout is never assigned after the constructor, so both
\* clearTimeout branches are dead; modal.hide() starts the hide transition
closeAndReload(s) ==
    [s EXCEPT !.reloadOnClose = TRUE,
              !.modalState = IF @ = "shown" THEN "hiding" ELSE @]

\* cleanup without 'this.messageBuffer = []'
cleanupKeepsBuffer(s) ==
    IF s.es # 0 THEN [CloseConn(s, s.es) EXCEPT !.es = 0] ELSE s

cleanup(s) ==
    LET s1 == IF s.es # 0 THEN [CloseConn(s, s.es) EXCEPT !.es = 0] ELSE s
    IN  [s1 EXCEPT !.messageBuffer = <<>>]

\* the hidden.bs.modal listener with the reload decision before cleanup()
hiddenListenerReloadFirst(s) ==
    LET s1 == IF s.reloadOnClose
              THEN [s EXCEPT !.reloadCalls = @ + 1, !.openAtReload = @ \/ (s.es # 0)]
              ELSE s
    IN  cleanup(s1)

\* one listener of hidden.bs.modal
hiddenListener(s) ==
    LET s1 == cleanup(s)
    IN  IF s1.reloadOnClose
        THEN [s1 EXCEPT !.reloadCalls = @ + 1, !.openAtReload = @ \/ (s1.es # 0)]
        ELSE s1

\* the scroll listener without the 5 px tolerance
scrollListenerExact(s) ==
    LET isAtBottom == s.scrollTop + ClientHeight >= scrollHeight(s.log)
    IN  IF isAtBottom # s.autoscroll
        THEN [s EXCEPT !.autoscroll = isAtBottom, !.toggleChecked = isAtBottom]
        ELSE s

\* the scroll listener without 'autoscrollToggle.checked = isAtBottom'
scrollListenerNoResync(s) ==
    LET isAtBottom == s.scrollTop + ClientHeight >= scrollHeight(s.log) - ScrollTolerance
    IN  IF isAtBottom # s.autoscroll THEN [s EXCEPT !.autoscroll = isAtBottom] ELSE s

\* one listener of the log's scroll event
scrollListener(s) ==
    LET isAtBottom == s.scrollTop + ClientHeight >= scrollHeight(s.log) - ScrollTolerance
    IN  IF isAtBottom # s.autoscroll
        THEN [s EXCEPT !.autoscroll = isAtBottom, !.toggleChecked = isAtBottom]
        ELSE s

\* the change listener without its scrollToBottom()
autoscrollListenerNoScroll(s) == [s EXCEPT !.autoscroll = s.toggleChecked]

\* one listener of the autoscroll toggle's change event
autoscrollListener(s) ==
    LET s1 == [s EXCEPT !.autoscroll = s.toggleChecked]
    IN  IF s1.autoscroll THEN scrollToBottom(s1) ELSE s1

initializeEventSource(s, streamUrl) ==
    [s EXCEPT !.conns = Append(@, [readyState |-> "connecting", closes |-> 0]),
              !.es = Len(s.conns) + 1]

setupEventListeners(s) == [s EXCEPT !.listeners = @ + 1]

\* launch without its 'this.log.innerHTML = \'\''
launchKeepsTranscript(s, streamUrl) ==
    LET s1 == initializeEventSource(setupEventListeners(s), streamUrl)
        s2 == [s1 EXCEPT !.modalState = IF @ = "hidden" THEN "shown" ELSE @]
    IN  [s2 EXCEPT !.streamEnded = FALSE, !.reloadOnClose = FALSE,
                   !.streamStatus = "Connecting..."]

launch(s, streamUrl) ==
    LET s1 == initializeEventSource(setupEventListeners(s), streamUrl)
        s2 == [s1 EXCEPT !.modalState = IF @ = "hidden" THEN "shown" ELSE @]
        \* log.innerHTML = '': the content shrinks and the browser clamps scrollTop
        s3 == SetScrollTop([s2 EXCEPT !.log = <<>>], s2.scrollTop)
    IN  [s3 EXCEPT !.streamEnded = FALSE, !.reloadOnClose = FALSE,
                   !.streamStatus = "Connecting..."]

\* the listener that setupEventListeners registers for an event
RunListener(event, s) ==
    CASE event = "pauseClick" -> togglePause(s)
      [] event = "doneClick" -> closeAndReload(s)
      [] event = "hidden" -> hiddenListener(s)
      [] event = "toggleChange" -> autoscrollListener(s)
      [] event = "scroll" -> scrollListener(s)

\* an event dispatched to the k listener sets that k launches registered
RECURSIVE Dispatch(_, _, _)
Dispatch(event, s, k) ==
    IF k = 0 THEN s ELSE Dispatch(event, RunListener(event, s), k - 1)

\* the same events on a console that is never paused (history variable)
UnpausedAppend(data) == Append(unpaused, ansi_to_html(data))
UnpausedEnd == IF streamEnded THEN unpaused ELSE UnpausedAppend(Marker)

\* the markup of the triggering control as the page renders it, and the
\* spinner launchTerminalWithButtonAnimation puts in its place
OriginalContent == "original"
SpinnerContent == "spinner"

\* the checked state of #modalAutoscrollToggle in the page as served: the
\* control is a view of the autoscroll boolean, which the constructor sets true
InitialToggleChecked == TRUE

\* the history record of a handler run
Did(op, arg) == [op |-> op, arg |-> arg]

\* ------------------------------------------------------------ file browser
\* text files of the browsed directory, directories a link can navigate to,
\* and the texts a file or the editor can hold
Paths == {"F1", "F2"}
Dirs == {"D1", "D2"}
Texts == {"t1", "t2"}

\* content fetches, and save fetches, that can be in flight at once
MaxLoads == 2
MaxSaves == 2

Null == "null"
NoNavigation == [kind |-> "none", to |-> "none"]

\* the globals of file_browser.js and the page state they drive
FileState == [editor |-> editor, originalContent |-> originalContent,
              hasUnsavedChanges |-> hasUnsavedChanges, currentFile |-> currentFile,
              pendingNavigation |-> pendingNavigation,
              unsavedModalShown |-> unsavedModalShown, location |-> location,
              loads |-> loads, saves |-> saves, editorFile |-> editorFile]

ApplyFile(f) ==
    /\ editor' = f.editor
    /\ originalContent' = f.originalContent
    /\ hasUnsavedChanges' = f.hasUnsavedChanges
    /\ currentFile' = f.currentFile
    /\ pendingNavigation' = f.pendingNavigation
    /\ unsavedModalShown' = f.unsavedModalShown
    /\ location' = f.location
    /\ loads' = f.loads
    /\ saves' = f.saves
    /\ editorFile' = f.editorFile

\* the file browser page as loaded for directory path: the globals of lines
\* 2-7, no request in flight
FilePage(path) ==
    [editor |-> Null, originalContent |-> "", hasUnsavedChanges |-> FALSE,
     currentFile |-> Null, pendingNavigation |-> NoNavigation,
     unsavedModalShown |-> FALSE, location |-> path,
     loads |-> EmptyBag, saves |-> EmptyBag, editorFile |-> Null]

\* window.location.href = updateUrl(path): the browser replaces the document
\* by the page of that directory; the requests of the old document are dropped
\* (hasUnsavedChanges is false wherever the code assigns href, so the
\* beforeunload listener does not intervene)
AssignLocation(f, path) == FilePage(path)

\* showEditor: the fetch of the file's content is started
showEditor(f, filepath) == [f EXCEPT !.loads = @ (+) SetToBag({filepath})]

\* every file of Paths is a text file: the showEditor branch
performFileSelection(f, filepath) ==
    showEditor([f EXCEPT !.currentFile = filepath], filepath)

\* the mode of every file of Paths is loaded already, so loadCodeMirrorMode
\* runs its callback at once and the editor exists when initializeEditor returns
initializeEditor(f, content) == [f EXCEPT !.editor = content]

\* the fulfilment handler of showEditor's fetch of filepath
showEditorThen(f, filepath, content) ==
    [initializeEditor(f, content) EXCEPT !.originalContent = content,
                                         !.hasUnsavedChanges = FALSE,
                                         !.editorFile = filepath]

\* the editor's 'change' listener, after the operator made the text t
editorChange(f, t) ==
    [f EXCEPT !.editor = t, !.hasUnsavedChanges = (t # f.originalContent)]

showUnsavedModal(f) == [f EXCEPT !.unsavedModalShown = TRUE]

navigateToPath(f, path) ==
    IF f.hasUnsavedChanges
    THEN showUnsavedModal([f EXCEPT !.pendingNavigation = [kind |-> "path", to |-> path]])
    ELSE AssignLocation(f, path)

selectFile(f, filepath) ==
    IF f.hasUnsavedChanges
    THEN showUnsavedModal([f EXCEPT !.pendingNavigation =
                                        [kind |-> "function", to |-> filepath]])
    ELSE performFileSelection(f, filepath)

\* the request of saveCurrentFile (proceed FALSE) and of saveAndProceed
\* (proceed TRUE): the same guard and the same form data
SaveRequest(f, proceed) ==
    IF f.currentFile = Null \/ f.editor = Null \/ ~ f.hasUnsavedChanges THEN f
    ELSE [f EXCEPT !.saves = @ (+) SetToBag({[filepath |-> f.currentFile,
                                               filecontent |-> f.editor,
                                               proceed |-> proceed]})]

saveCurrentFile(f) == SaveRequest(f, FALSE)
saveAndProceed(f) == SaveRequest(f, TRUE)

\* executePendingNavigation without 'pendingNavigation = null'
executePendingNavigationKeeps(f) ==
    IF f.pendingNavigation.kind = "none" THEN f
    ELSE IF f.pendingNavigation.kind = "function"
    THEN performFileSelection(f, f.pendingNavigation.to)
    ELSE AssignLocation(f, f.pendingNavigation.to)

executePendingNavigation(f) ==
    IF f.pendingNavigation.kind = "none" THEN f
    ELSE IF f.pendingNavigation.kind = "function"
    THEN [performFileSelection(f, f.pendingNavigation.to)
             EXCEPT !.pendingNavigation = NoNavigation]
    ELSE AssignLocation(f, f.pendingNavigation.to)

\* the handlers of the save fetch of request r: data.success, or the alert of
\* the else branch and of catch
saveCurrentFileThen(f, r, success) ==
    LET f1 == [f EXCEPT !.saves = @ (-) SetToBag({r})]
    IN  IF success
        THEN [f1 EXCEPT !.originalContent = f1.editor, !.hasUnsavedChanges = FALSE]
        ELSE f1

saveAndProceedThen(f, r, success) ==
    LET f1 == [f EXCEPT !.saves = @ (-) SetToBag({r})]
    IN  IF success
        THEN executePendingNavigation(
                 [f1 EXCEPT !.originalContent = f1.editor,
                            !.hasUnsavedChanges = FALSE,
                            !.unsavedModalShown = FALSE])
        ELSE f1

discardChanges(f) ==
    executePendingNavigation([f EXCEPT !.hasUnsavedChanges = FALSE,
                                       !.unsavedModalShown = FALSE])

\* the page is served for directory D1
FileInit ==
    /\ editor = Null
    /\ originalContent = ""
    /\ hasUnsavedChanges = FALSE
    /\ currentFile = Null
    /\ pendingNavigation = NoNavigation
    /\ unsavedModalShown = FALSE
    /\ location = "D1"
    /\ loads = EmptyBag
    /\ saves = EmptyBag
    /\ editorFile = Null

\* -------------------------------------------------- service deletion dialog
\* services a card can name in showDeleteConfirmation
Services == {"S1", "S2"}

\* the globals of part_000 and the dialog they drive
DeleteState == [deleteServiceUrl |-> deleteServiceUrl,
                deleteServiceName |-> deleteServiceName,
                deleteModalShown |-> deleteModalShown,
                shownUrl |-> shownUrl, deleteLaunched |-> deleteLaunched]

ApplyDelete(d) ==
    /\ deleteServiceUrl' = d.deleteServiceUrl
    /\ deleteServiceName' = d.deleteServiceName
    /\ deleteModalShown' = d.deleteModalShown
    /\ shownUrl' = d.shownUrl
    /\ deleteLaunched' = d.deleteLaunched

\* serviceId is not used by the function
showDeleteConfirmation(d, serviceName, deleteUrl) ==
    [d EXCEPT !.deleteServiceUrl = deleteUrl, !.deleteServiceName = serviceName,
              !.deleteModalShown = TRUE,
              !.shownUrl = deleteUrl, !.deleteLaunched = <<>>]

\* the dialog's side of serviceActionWithTerminal: the call is recorded; the
\* console's side is launch(State, streamUrl)
serviceActionWithTerminal(d, streamUrl, actionTitle) ==
    [d EXCEPT !.deleteLaunched = Append(@, [streamUrl |-> streamUrl,
                                            actionTitle |-> actionTitle])]

\* the click listener without 'deleteServiceUrl = null; deleteServiceName = null'
confirmDeleteListenerKeepsUrl(d) ==
    IF d.deleteServiceUrl # Null
    THEN serviceActionWithTerminal([d EXCEPT !.deleteModalShown = FALSE],
                                   d.deleteServiceUrl, d.deleteServiceName)
    ELSE d

\* the click listener of #confirmDeleteBtn, registered once when the script loads
confirmDeleteListener(d) ==
    IF d.deleteServiceUrl # Null
    THEN [serviceActionWithTerminal([d EXCEPT !.deleteModalShown = FALSE],
                                    d.deleteServiceUrl, d.deleteServiceName)
             EXCEPT !.deleteServiceUrl = Null, !.deleteServiceName = Null]
    ELSE d

DeleteInit ==
    /\ deleteServiceUrl = Null
    /\ deleteServiceName = Null
    /\ deleteModalShown = FALSE
    /\ shownUrl = Null
    /\ deleteLaunched = <<>>

\* ----------------------------------------------------------------- state
Init ==
    /\ es = 0
    /\ conns = <<>>
    /\ log = <<>>
    /\ isPaused = FALSE
    /\ messageBuffer = <<>>
    /\ streamEnded = FALSE
    /\ reloadOnClose = FALSE
    /\ autoscroll = TRUE
    /\ toggleChecked = InitialToggleChecked
    /\ scrollTop = 0
    /\ scrollEvt = FALSE
    /\ streamStatus = ""
    /\ listeners = 0
    /\ modalState = "hidden"
    /\ reloadCalls = 0
    /\ openAtReload = FALSE
    /\ sent = 0
    /\ unpaused = <<>>
    /\ last = Did("load", 0)
    /\ buttonContent = OriginalContent
    /\ buttonTimers = <<>>
    /\ clipboardWrites = 0
    /\ copyToast = "hidden"
    /\ FileInit
    /\ DeleteInit

\* location.reload() has not been called: the document is still alive
PageAlive == reloadCalls = 0

\* --------------------------------------------------------------- actions
\* launchTerminalModal(streamUrl), from any dashboard view
Launch(streamUrl) ==
    /\ PageAlive
    /\ UNCHANGED <<fileVars, deleteVars>>
    /\ UNCHANGED pageVars
    /\ listeners < MaxLaunches
    /\ Apply(launch(State, streamUrl))
    /\ unpaused' = <<>>
    /\ last' = Did("launch", 0)
    /\ UNCHANGED sent

\* es.onopen of connection c
OnOpen(c) ==
    /\ PageAlive
    /\ UNCHANGED <<fileVars, deleteVars>>
    /\ UNCHANGED pageVars
    /\ conns[c].readyState = "connecting"
    /\ Apply([State EXCEPT !.conns[c].readyState = "open",
                           !.streamStatus = "Connected"])
    /\ last' = Did("open", c)
    /\ UNCHANGED <<sent, unpaused>>

\* an onmessage that renders the chunk as well as buffering it while paused
OnMessageRendersWhilePaused(c) ==
    /\ PageAlive
    /\ UNCHANGED <<fileVars, deleteVars>>
    /\ UNCHANGED pageVars
    /\ conns[c].readyState = "open"
    /\ sent < MaxChunks
    /\ LET data == Chunk(c, sent + 1)
       IN  /\ IF isPaused
              THEN Apply(appendMessage([State EXCEPT !.messageBuffer = Append(@, data)], data))
              ELSE Apply(appendMessage(State, data))
           /\ unpaused' = UnpausedAppend(data)
    /\ sent' = sent + 1
    /\ last' = Did("message", c)

\* es.onmessage of connection c
OnMessage(c) ==
    /\ PageAlive
    /\ UNCHANGED <<fileVars, deleteVars>>
    /\ UNCHANGED pageVars
    /\ conns[c].readyState = "open"
    /\ sent < MaxChunks
    /\ LET data == Chunk(c, sent + 1)
       IN  /\ IF isPaused
              THEN Apply([State EXCEPT !.messageBuffer = Append(@, data)])
              ELSE Apply(appendMessage(State, data))
           /\ unpaused' = UnpausedAppend(data)
    /\ sent' = sent + 1
    /\ last' = Did("message", c)

\* an onerror that treats a failure before the transport connected as an
\* error of its own instead of a stream end
OnErrorOpenOnly(c, retry) ==
    /\ PageAlive
    /\ UNCHANGED <<fileVars, deleteVars>>
    /\ UNCHANGED pageVars
    /\ conns[c].readyState \in {"connecting", "open"}
    /\ LET s1 == [State EXCEPT !.conns[c].readyState =
                                  IF retry THEN "connecting" ELSE "closed"]
       IN  IF conns[c].readyState = "open"
           THEN Apply(handleStreamEnd(s1))
           ELSE Apply([s1 EXCEPT !.streamStatus = "Error"])
    /\ unpaused' = UnpausedEnd
    /\ last' = Did("error", IF streamEnded THEN 1
                            ELSE IF conns[c].readyState = "open" THEN 0 ELSE 2)
    /\ UNCHANGED sent

\* es.onerror of connection c: the server closed the stream or the transport
\* failed.  The browser has already set readyState: "connecting" when it will
\* retry, "closed" when the failure is fatal.
OnError(c, retry) ==
    /\ PageAlive
    /\ UNCHANGED <<fileVars, deleteVars>>
    /\ UNCHANGED pageVars
    /\ conns[c].readyState \in {"connecting", "open"}
    /\ Apply(handleStreamEnd(
             [State EXCEPT !.conns[c].readyState =
                               IF retry THEN "connecting" ELSE "closed"]))
    /\ unpaused' = UnpausedEnd
    \* arg: 1 when the session had already handled a stream end; otherwise 0 when
    \* the connection was open and 2 when it was still connecting
    /\ last' = Did("error", IF streamEnded THEN 1
                            ELSE IF conns[c].readyState = "open" THEN 0 ELSE 2)
    /\ UNCHANGED sent

\* click on #modalPauseButton
PauseButtonClick ==
    /\ PageAlive
    /\ UNCHANGED <<fileVars, deleteVars>>
    /\ UNCHANGED pageVars
    /\ modalState = "shown"
    /\ Apply(Dispatch("pauseClick", State, listeners))
    \* arg: the number of chunks that were waiting in messageBuffer
    /\ last' = Did("pause", Len(messageBuffer))
    /\ UNCHANGED <<sent, unpaused>>

\* click on #doneButton
DoneButtonClick ==
    /\ PageAlive
    /\ UNCHANGED <<fileVars, deleteVars>>
    /\ UNCHANGED pageVars
    /\ modalState = "shown"
    /\ Apply(Dispatch("doneClick", State, listeners))
    /\ last' = Did("done", 0)
    /\ UNCHANGED <<sent, unpaused>>

\* the operator dismisses the modal with a control other than Done
\* (modal.hide() without closeAndReload)
DismissModal ==
    /\ PageAlive
    /\ UNCHANGED <<fileVars, deleteVars>>
    /\ UNCHANGED pageVars
    /\ modalState = "shown"
    /\ Apply([State EXCEPT !.modalState = "hiding"])
    /\ last' = Did("dismiss", 0)
    /\ UNCHANGED <<sent, unpaused>>

\* hidden.bs.modal fires when the hide transition has finished
HiddenBsModal ==
    /\ PageAlive
    /\ UNCHANGED <<fileVars, deleteVars>>
    /\ UNCHANGED pageVars
    /\ modalState = "hiding"
    /\ Apply(Dispatch("hidden", [State EXCEPT !.modalState = "hidden"], listeners))
    \* arg: the connection that was still open, 0 when none
    /\ last' = Did("hidden", es)
    /\ UNCHANGED <<sent, unpaused>>

\* the operator flips #modalAutoscrollToggle
AutoscrollToggleChange ==
    /\ PageAlive
    /\ UNCHANGED <<fileVars, deleteVars>>
    /\ UNCHANGED pageVars
    /\ modalState = "shown"
    /\ Apply(Dispatch("toggleChange",
                      [State EXCEPT !.toggleChecked = ~ toggleChecked], listeners))
    \* arg: the scroll position before the change
    /\ last' = Did("toggle", scrollTop)
    /\ UNCHANGED <<sent, unpaused>>

\* the operator scrolls the log to position v
LogScroll(v) ==
    /\ PageAlive
    /\ UNCHANGED <<fileVars, deleteVars>>
    /\ UNCHANGED pageVars
    /\ modalState = "shown"
    /\ v # scrollTop
    /\ Apply(SetScrollTop(State, v))
    /\ last' = Did("scroll", 0)
    /\ UNCHANGED <<sent, unpaused>>

\* the queued scroll event of #modalLog is dispatched
OnScroll ==
    /\ PageAlive
    /\ UNCHANGED <<fileVars, deleteVars>>
    /\ UNCHANGED pageVars
    /\ scrollEvt
    /\ Apply(Dispatch("scroll", [State EXCEPT !.scrollEvt = FALSE], listeners))
    \* arg: 1 when autoscroll was on before the listeners ran
    /\ last' = Did("onscroll", IF autoscroll THEN 1 ELSE 0)
    /\ UNCHANGED <<sent, unpaused>>

\* the navigation started by location.reload() replaces the document
PageReload ==
    /\ reloadCalls > 0
    /\ UNCHANGED fileVars
    /\ ApplyDelete([deleteServiceUrl |-> Null, deleteServiceName |-> Null,
                    deleteModalShown |-> FALSE, shownUrl |-> Null,
                    deleteLaunched |-> <<>>])
    /\ Apply([es |-> 0, conns |-> <<>>, log |-> <<>>, isPaused |-> FALSE,
              messageBuffer |-> <<>>, streamEnded |-> FALSE,
              reloadOnClose |-> FALSE, autoscroll |-> TRUE,
              toggleChecked |-> InitialToggleChecked, scrollTop |-> 0, scrollEvt |-> FALSE,
              streamStatus |-> "", listeners |-> 0, modalState |-> "hidden",
              reloadCalls |-> 0, openAtReload |-> FALSE])
    /\ sent' = 0
    /\ unpaused' = <<>>
    /\ last' = Did("reload", 0)
    /\ buttonContent' = OriginalContent
    /\ buttonTimers' = <<>>
    /\ clipboardWrites' = 0
    /\ copyToast' = "hidden"

\* ------------------------------------------------------- copy to clipboard
\* click on #modalCopyButton: every registered listener calls copyToClipboard,
\* which reads the log's text and runs up to 'await navigator.clipboard.writeText'
CopyButtonClick ==
    /\ PageAlive
    /\ UNCHANGED <<fileVars, deleteVars>>
    /\ modalState = "shown"
    /\ clipboardWrites + listeners <= MaxCopies
    /\ Apply(State)
    /\ clipboardWrites' = clipboardWrites + listeners
    /\ last' = Did("copy", 0)
    /\ UNCHANGED <<sent, unpaused, buttonContent, buttonTimers, copyToast>>

\* the promise of writeText is fulfilled: copyToClipboard resumes after its
\* await and calls showToast('modalCopyToast')
ClipboardWriteResolved ==
    /\ PageAlive
    /\ UNCHANGED <<fileVars, deleteVars>>
    /\ clipboardWrites > 0
    /\ Apply(State)
    /\ clipboardWrites' = clipboardWrites - 1
    /\ copyToast' = "shown"
    /\ last' = Did("copyOk", 0)
    /\ UNCHANGED <<sent, unpaused, buttonContent, buttonTimers>>

\* a copyToClipboard whose catch block also shows the confirmation toast
ClipboardWriteRejectedShowsToast ==
    /\ PageAlive
    /\ UNCHANGED <<fileVars, deleteVars>>
    /\ clipboardWrites > 0
    /\ Apply(State)
    /\ clipboardWrites' = clipboardWrites - 1
    /\ copyToast' = "shown"
    /\ last' = Did("copyFail", 0)
    /\ UNCHANGED <<sent, unpaused, buttonContent, buttonTimers>>

\* the promise of writeText is rejected (permission denied): the catch block
\* of copyToClipboard logs the error to the browser console and returns
ClipboardWriteRejected ==
    /\ PageAlive
    /\ UNCHANGED <<fileVars, deleteVars>>
    /\ clipboardWrites > 0
    /\ Apply(State)
    /\ clipboardWrites' = clipboardWrites - 1
    /\ last' = Did("copyFail", 0)
    /\ UNCHANGED <<sent, unpaused, buttonContent, buttonTimers, copyToast>>

\* the 2000 ms delay of the bootstrap.Toast of showToast has elapsed
CopyToastDelayElapsed ==
    /\ PageAlive
    /\ UNCHANGED <<fileVars, deleteVars>>
    /\ copyToast = "shown"
    /\ Apply(State)
    /\ copyToast' = "hidden"
    /\ last' = Did("toastHide", 0)
    /\ UNCHANGED <<sent, unpaused, buttonContent, buttonTimers, clipboardWrites>>

\* ------------------------------------------------------ triggering control
\* launchTerminalWithButtonAnimation(streamUrl, buttonElement): the control's
\* current markup is captured, the spinner replaces it, a 2000 ms timer is
\* started to put the captured markup back, and the console is launched
LaunchWithButtonAnimation(streamUrl) ==
    /\ PageAlive
    /\ UNCHANGED <<fileVars, deleteVars>>
    /\ listeners < MaxLaunches
    /\ buttonTimers' = Append(buttonTimers, buttonContent)
    /\ buttonContent' = SpinnerContent
    /\ Apply(launch(State, streamUrl))
    /\ unpaused' = <<>>
    /\ last' = Did("launch", 1)
    /\ UNCHANGED <<sent, clipboardWrites, copyToast>>

\* the oldest pending timer fires (all timers have the same delay)
ButtonTimeout ==
    /\ PageAlive
    /\ UNCHANGED <<fileVars, deleteVars>>
    /\ buttonTimers # <<>>
    /\ Apply(State)
    /\ buttonContent' = Head(buttonTimers)
    /\ buttonTimers' = Tail(buttonTimers)
    /\ last' = Did("buttonTimeout", 0)
    /\ UNCHANGED <<sent, unpaused, clipboardWrites, copyToast>>

\* scroll positions the operator can reach, one for each way the scroll
\* listener's comparison can fall: the top, the bottom, the highest position
\* within the tolerance of bottom and the lowest position beyond it
ScrollPositions ==
    {v \in 0..MaxScrollTop(log) :
        v \in {0, MaxScrollTop(log), MaxScrollTop(log) - ScrollTolerance,
                MaxScrollTop(log) - ScrollTolerance - 1}}

\* The session: launches, the transport's events, pause, dismissal, reload.
\* No handler of the session reads autoscroll, the toggle or the scroll
\* position, so the operator's scrolling is left to ScrollSpec: here the log
\* stays where autoscroll puts it.
Next ==
    \/ \E u \in Urls : Launch(u)
    \/ \E c \in 1..Len(conns) : OnOpen(c)
    \/ \E c \in 1..Len(conns) : OnMessage(c)
    \/ \E c \in 1..Len(conns), retry \in BOOLEAN : OnError(c, retry)
    \/ PauseButtonClick
    \/ DoneButtonClick
    \/ DismissModal
    \/ HiddenBsModal
    \/ PageReload

Spec == Init /\ [][Next]_vars

\* The log's view: launches, appends (chunks and the completion marker), the
\* autoscroll toggle, the operator's scrolling and the scroll events
ScrollNext ==
    \/ \E u \in Urls : Launch(u)
    \/ \E c \in 1..Len(conns) : OnOpen(c)
    \/ \E c \in 1..Len(conns) : OnMessage(c)
    \/ \E c \in 1..Len(conns), retry \in BOOLEAN : OnError(c, retry)
    \/ AutoscrollToggleChange
    \/ \E v \in ScrollPositions : LogScroll(v)
    \/ OnScroll

ScrollSpec == Init /\ [][ScrollNext]_vars

\* the console with its Copy button, the log left where autoscroll puts it
CopyNext ==
    \/ \E u \in Urls : Launch(u)
    \/ \E c \in 1..Len(conns) : OnOpen(c)
    \/ \E c \in 1..Len(conns) : OnMessage(c)
    \/ \E c \in 1..Len(conns), retry \in BOOLEAN : OnError(c, retry)
    \/ PauseButtonClick
    \/ DoneButtonClick
    \/ HiddenBsModal
    \/ PageReload
    \/ CopyButtonClick
    \/ ClipboardWriteResolved
    \/ ClipboardWriteRejected
    \/ CopyToastDelayElapsed

CopySpec == Init /\ [][CopyNext]_vars

\* the console launched from a container card's button
ButtonNext ==
    \/ \E u \in Urls : LaunchWithButtonAnimation(u)
    \/ ButtonTimeout
    \/ \E c \in 1..Len(conns) : OnOpen(c)
    \/ \E c \in 1..Len(conns) : OnMessage(c)
    \/ \E c \in 1..Len(conns), retry \in BOOLEAN : OnError(c, retry)
    \/ PauseButtonClick

ButtonSpec == Init /\ [][ButtonNext]_vars

\* ------------------------------------------------------------ file browser
\* While #unsavedChangesModal is shown its backdrop and focus trap keep the
\* operator from the page beneath: only the modal's buttons can be used.

\* click on a file of the listing
SelectFile(filepath) ==
    /\ ~ unsavedModalShown
    /\ BagCardinality(loads) < MaxLoads
    /\ ApplyFile(selectFile(FileState, filepath))
    \* arg: 1 when the selection was deferred
    /\ last' = Did("select", IF hasUnsavedChanges THEN 1 ELSE 0)
    /\ UNCHANGED <<consoleVars, deleteVars>>

\* click on a directory of the listing or of the breadcrumb
NavigateToPath(path) ==
    /\ ~ unsavedModalShown
    /\ ApplyFile(navigateToPath(FileState, path))
    /\ last' = Did("navigate", IF hasUnsavedChanges THEN 1 ELSE 0)
    /\ UNCHANGED <<consoleVars, deleteVars>>

\* the content fetch of filepath is fulfilled with the text the server holds
\* for the file at that moment
ContentLoaded(filepath, content) ==
    /\ BagIn(filepath, loads)
    /\ ApplyFile(showEditorThen([FileState EXCEPT !.loads = @ (-) SetToBag({filepath})],
                                filepath, content))
    /\ last' = Did("loaded", 0)
    /\ UNCHANGED <<consoleVars, deleteVars>>

\* the content fetch of filepath is rejected: the catch of showEditor alerts
ContentLoadFailed(filepath) ==
    /\ BagIn(filepath, loads)
    /\ ApplyFile([FileState EXCEPT !.loads = @ (-) SetToBag({filepath})])
    /\ last' = Did("loadFailed", 0)
    /\ UNCHANGED <<consoleVars, deleteVars>>

\* the operator changes the text of the editor to t
EditorChange(t) ==
    /\ ~ unsavedModalShown
    /\ editor # Null
    /\ t # editor
    /\ ApplyFile(editorChange(FileState, t))
    /\ last' = Did("edit", 0)
    /\ UNCHANGED <<consoleVars, deleteVars>>

\* Ctrl-S / Cmd-S in the editor, or the save button
SaveCurrentFile ==
    /\ ~ unsavedModalShown
    /\ BagCardinality(saves) < MaxSaves
    /\ ApplyFile(saveCurrentFile(FileState))
    /\ last' = Did("save", 0)
    /\ UNCHANGED <<consoleVars, deleteVars>>

\* the 'save and proceed' button of the unsaved-changes modal
SaveAndProceed ==
    /\ unsavedModalShown
    /\ BagCardinality(saves) < MaxSaves
    /\ ApplyFile(saveAndProceed(FileState))
    /\ last' = Did("saveProceed", 0)
    /\ UNCHANGED <<consoleVars, deleteVars>>

\* the save fetch r of saveCurrentFile is settled
SaveCurrentFileSettled(r, success) ==
    /\ BagIn(r, saves)
    /\ ~ r.proceed
    /\ ApplyFile(saveCurrentFileThen(FileState, r, success))
    \* arg of "saved": the filecontent that the request carried
    /\ last' = IF success THEN Did("saved", r.filecontent) ELSE Did("saveFailed", 0)
    /\ UNCHANGED <<consoleVars, deleteVars>>

\* the save fetch r of saveAndProceed is settled
SaveAndProceedSettled(r, success) ==
    /\ BagIn(r, saves)
    /\ r.proceed
    /\ BagCardinality(saveAndProceedThen(FileState, r, success).loads) <= MaxLoads
    /\ ApplyFile(saveAndProceedThen(FileState, r, success))
    /\ last' = IF success THEN Did("proceeded", 0) ELSE Did("proceedFailed", 0)
    /\ UNCHANGED <<consoleVars, deleteVars>>

\* the 'discard' button of the unsaved-changes modal
DiscardChanges ==
    /\ unsavedModalShown
    /\ BagCardinality(discardChanges(FileState).loads) <= MaxLoads
    /\ ApplyFile(discardChanges(FileState))
    /\ last' = Did("discard", 0)
    /\ UNCHANGED <<consoleVars, deleteVars>>

FileNext ==
    \/ \E filepath \in Paths : SelectFile(filepath)
    \/ \E path \in Dirs : NavigateToPath(path)
    \/ \E filepath \in Paths, content \in Texts : ContentLoaded(filepath, content)
    \/ \E filepath \in Paths : ContentLoadFailed(filepath)
    \/ \E t \in Texts : EditorChange(t)
    \/ SaveCurrentFile
    \/ SaveAndProceed
    \/ \E r \in BagToSet(saves), success \in BOOLEAN : SaveCurrentFileSettled(r, success)
    \/ \E r \in BagToSet(saves), success \in BOOLEAN : SaveAndProceedSettled(r, success)
    \/ DiscardChanges

FileSpec == Init /\ [][FileNext]_vars

\* -------------------------------------------------- service deletion dialog
\* the delete control of a service: showDeleteConfirmation(id, name, url)
ShowDeleteConfirmation(serviceName, deleteUrl) ==
    /\ PageAlive
    /\ ApplyDelete(showDeleteConfirmation(DeleteState, serviceName, deleteUrl))
    /\ last' = Did("showDelete", 0)
    /\ UNCHANGED <<consoleVars, fileVars>>

\* click on #confirmDeleteBtn (the dialog fades out after hide(), so the
\* button can be clicked again)
ConfirmDeleteClick ==
    /\ PageAlive
    /\ deleteServiceUrl # Null => listeners < MaxLaunches
    /\ ApplyDelete(confirmDeleteListener(DeleteState))
    /\ IF deleteServiceUrl # Null
       THEN /\ Apply(launch(State, deleteServiceUrl))
            /\ unpaused' = <<>>
       ELSE /\ Apply(State)
            /\ UNCHANGED unpaused
    \* arg: 1 when the listener found a url, 0 when it did nothing
    /\ last' = Did("confirmDelete", IF deleteServiceUrl # Null THEN 1 ELSE 0)
    /\ UNCHANGED <<sent, pageVars, fileVars>>

\* the services page: the deletion dialog and the console it launches
DeleteNext ==
    \/ \E serviceName \in Services, deleteUrl \in Urls :
           ShowDeleteConfirmation(serviceName, deleteUrl)
    \/ ConfirmDeleteClick
    \/ \E c \in 1..Len(conns) : OnOpen(c)
    \/ \E c \in 1..Len(conns) : OnMessage(c)
    \/ \E c \in 1..Len(conns), retry \in BOOLEAN : OnError(c, retry)
    \/ DoneButtonClick
    \/ HiddenBsModal
    \/ PageReload

DeleteSpec == Init /\ [][DeleteNext]_vars

\* ======================================================================
\* Properties
\* ======================================================================
\* the connection opened by the most recent launch
CurConn == Len(conns)

\* the chunks delivered to onmessage since the most recent launch, in arrival order
Arrived == ChunkEntries(unpaused)
InArrived(d) == \E i \in 1..Len(Arrived) : Arrived[i] = d
InArrivedNext(d) == \E i \in 1..Len(ChunkEntries(unpaused')) : ChunkEntries(unpaused')[i] = d

\* the modal was dismissed after the most recent launch (cleanup has run)
Dismissed == listeners > 0 /\ modalState = "hidden"

\* everything but the transport's own view of its connections
SessionVars == <<es, log, isPaused, messageBuffer, streamEnded, reloadOnClose,
                 autoscroll, toggleChecked, scrollTop, scrollEvt, streamStatus,
                 listeners, modalState, reloadCalls>>

\* C1 (stated as claimed; the code violates it): whenever the modal is open and
\* no chunk waits in messageBuffer, the chunk entries of the transcript are
\* exactly the chunks delivered since the launch, in arrival order.
C1_OrderPreservation ==
    (modalState # "hidden" /\ messageBuffer = <<>>) => ChunkEntries(log) = Arrived

\* C2: a click on Pause/Resume that runs the resume branch leaves messageBuffer
\* empty and the transcript holding every chunk delivered since the launch
\* exactly once, in arrival order.
C2_NoLossUnderPause ==
    [][(last'.op = "pause" /\ (isPaused \/ listeners > 1))
         => /\ (~isPaused' => messageBuffer' = <<>>)
            /\ (isPaused => messageBuffer' = <<>>)
            /\ SelectSeq(ChunkEntries(log'), InArrivedNext) = ChunkEntries(unpaused')
            /\ Len(log') = Len(log) + Len(messageBuffer)]_vars

\* C2 witness: a resume has just drained two chunks that arrived while paused
C2_Witness ==
    /\ last = Did("pause", 2)
    /\ ~isPaused
    /\ messageBuffer = <<>>
    /\ Len(ChunkEntries(log)) >= 2

\* C3: the completion marker is in the transcript at most once, and exactly once
\* when streamEnded; close() is called at most once on any connection and
\* exactly once on the session's connection when the stream has ended;
\* streamEnded goes back to false only by a launch; a terminal signal that
\* finds streamEnded true changes nothing of the session.
C3_AtMostOnceCompletion ==
    /\ [](/\ MarkerCount(log) <= 1
          /\ (streamEnded <=> MarkerCount(log) = 1)
          /\ \A c \in 1..Len(conns) : conns[c].closes <= 1
          /\ (streamEnded => conns[CurConn].closes = 1))
    /\ [][(streamEnded /\ ~streamEnded') => last'.op \in {"launch", "reload"}]_vars
    /\ [][(last'.op = "error" /\ streamEnded)
            => /\ UNCHANGED SessionVars
               /\ \A c \in 1..Len(conns) : conns'[c].closes = conns[c].closes]_vars

\* C3 witness: a terminal signal has just arrived after the stream end was handled
C3_Witness ==
    /\ last = Did("error", 1)
    /\ streamEnded
    /\ MarkerCount(log) = 1

\* C4 (stated as claimed; the code violates it): at most one connection is
\* not closed.
C4_SingleLiveConnection ==
    Cardinality({c \in 1..Len(conns) : conns[c].readyState # "closed"}) <= 1

\* C5 (stated as claimed; the code violates it): on a page with a single launch
\* and an open modal, whenever the console is not paused the transcript equals
\* the transcript the same deliveries and terminal signal produce without any
\* pause, completion marker included.
C5_PauseTransparency ==
    (listeners = 1 /\ modalState # "hidden" /\ ~isPaused /\ messageBuffer = <<>>)
        => log = unpaused

\* C6: the first stream end handled while a connection is open sets streamEnded,
\* appends the completion marker, sets the status to 'Completed', closes and
\* releases the connection and sets reloadOnClose.
C6_StreamEndTransition ==
    [][(last'.op = "error" /\ ~streamEnded /\ es # 0)
         => /\ streamEnded'
            /\ log' = Append(log, ansi_to_html(Marker))
            /\ streamStatus' = "Completed"
            /\ es' = 0
            /\ conns'[es].readyState = "closed"
            /\ conns'[es].closes = 1
            /\ reloadOnClose'
            /\ UNCHANGED <<isPaused, messageBuffer>>]_vars

\* C6 witness: the stream end has just been handled while the console was paused
\* with a chunk waiting
C6_Witness ==
    /\ last = Did("error", 0)
    /\ streamEnded
    /\ isPaused
    /\ messageBuffer # <<>>
    /\ conns[CurConn].closes = 1
    /\ modalState = "shown"

\* C7 (stated as claimed; the code violates it): a dismissal before the session
\* is Completed leaves reloadOnClose as it was.
C7_DismissKeepsReloadFlag ==
    [][(last'.op \in {"done", "dismiss"} /\ ~streamEnded)
         => reloadOnClose' = reloadOnClose]_vars

\* C7 as amended: a click on Done sets reloadOnClose to true, whatever it was and
\* whether or not the stream has ended, starts hiding the modal and leaves the
\* connection as it is.
C7_DoneSetsReloadFlag ==
    [][last'.op = "done"
         => /\ reloadOnClose'
            /\ modalState' = "hiding"
            /\ UNCHANGED <<es, conns, streamEnded, log>>]_vars

\* C7 witness: Done was clicked before any stream end
C7_Witness ==
    /\ last = Did("done", 0)
    /\ ~streamEnded
    /\ es # 0
    /\ reloadOnClose

\* C8: when hidden.bs.modal fires, location.reload() is called if and only if
\* reloadOnClose is true, the connection is released, and no reload is decided
\* while the connection is still held.
C8_ReloadIffFlag ==
    [][last'.op = "hidden"
         => /\ (reloadCalls' > reloadCalls) <=> reloadOnClose
            /\ es' = 0
            /\ (es # 0 => conns'[es].readyState = "closed")
            /\ ~openAtReload']_vars

\* C8 witness: the modal was hidden while its connection was open and the page
\* reload was requested
C8_Witness ==
    /\ last.op = "hidden"
    /\ last.arg # 0
    /\ reloadCalls > 0
    /\ conns[last.arg].readyState = "closed"

\* C9 (stated as claimed; the code violates it): one dismissal calls
\* location.reload() at most once and close() at most once per connection.
C9_IdempotentClose ==
    /\ reloadCalls <= 1
    /\ \A c \in 1..Len(conns) : conns[c].closes <= 1

\* C10 (stated as claimed; the code violates it): once the modal has been
\* dismissed before any stream end, nothing is delivered to the session until
\* the next launch: the transcript, messageBuffer and streamEnded do not change.
C10_DismissalIsCancellation ==
    [][(Dismissed /\ ~streamEnded /\ last'.op \notin {"launch", "reload"})
         => UNCHANGED <<log, messageBuffer, streamEnded>>]_vars

\* C11 (stated as claimed; the code violates it): a launch issued while the
\* session holds no connection (after a stream end or a dismissal) empties the
\* transcript, resets streamEnded and reloadOnClose, sets the status to
\* 'Connecting...' and leaves the session not paused.
C11_RelaunchResetsState ==
    [][(last'.op = "launch" /\ listeners > 0 /\ es = 0)
         => /\ log' = <<>>
            /\ ~streamEnded'
            /\ ~reloadOnClose'
            /\ streamStatus' = "Connecting..."
            /\ ~isPaused']_vars

\* C12 (stated as claimed; the code violates it): right after a launch
\* messageBuffer is empty.
C12_LaunchEmptiesBuffer == last.op = "launch" => messageBuffer = <<>>

\* the view is more than the tolerance above the bottom of the log
FarFromBottom == scrollTop + ClientHeight < scrollHeight(log) - ScrollTolerance

\* C13: a chunk appended with autoscroll on and the view at bottom leaves the
\* view at bottom; a scroll event dispatched more than the tolerance above
\* bottom sets autoscroll to false, and one dispatched within the tolerance sets
\* it to true; while autoscroll is false no append moves the scroll position.
C13_AutoscrollSelfCorrection ==
    [][/\ (last'.op = "message" /\ ~isPaused /\ autoscroll /\ scrollTop = MaxScrollTop(log))
            => (Len(log') = Len(log) + 1 /\ scrollTop' = MaxScrollTop(log'))
       /\ (last'.op = "onscroll" /\ FarFromBottom) => ~autoscroll'
       /\ (last'.op = "onscroll" /\ ~FarFromBottom) => autoscroll'
       /\ (~autoscroll /\ Len(log') > Len(log)) => scrollTop' = scrollTop]_vars

\* C13 witness: the scroll event of a scroll far above bottom has just switched
\* autoscroll off
C13_Witness ==
    /\ last = Did("onscroll", 1)
    /\ FarFromBottom
    /\ ~autoscroll
    /\ ~toggleChecked

\* C14 (stated as claimed; the code violates it): while streamEnded is true no
\* connection of the page is connecting or open, and no message is delivered
\* to the session.
C14_NoReconnect ==
    streamEnded => /\ \A c \in 1..Len(conns) : conns[c].readyState = "closed"
                   /\ last.op # "message"

\* the texts the code writes to the status badge (empty before the first launch)
StatusTexts == {"", "Connecting...", "Connected", "Completed"}

\* C15: an onerror handled while the session holds a connection completes the
\* session whether the raising connection was open or still connecting and
\* whether or not the browser will retry: streamEnded is set, the marker is
\* appended, the status reads 'Completed', the connection is released; the
\* status badge never shows anything but the four texts of the normal lifecycle.
C15_FailureIsStreamEnd ==
    /\ [](streamStatus \in StatusTexts)
    /\ [][(last'.op = "error" /\ es # 0)
            => /\ last'.arg \in {0, 2}
               /\ streamEnded'
               /\ streamStatus' = "Completed"
               /\ log' = Append(log, ansi_to_html(Marker))
               /\ es' = 0
               /\ conns'[es].readyState = "closed"]_vars

\* C15 witness: the only connection of the page failed before it ever opened and
\* the session is Completed
C15_Witness ==
    /\ last = Did("error", 2)
    /\ listeners = 1
    /\ streamEnded
    /\ streamStatus = "Completed"
    /\ log = <<ansi_to_html(Marker)>>
    /\ es = 0

\* C16: a rejected clipboard write changes nothing of the session, of its
\* connections or of the page (it only settles the promise), and the copy
\* toast is shown only by a fulfilled write.
C16_CopyFailureIsSwallowed ==
    [][/\ last'.op = "copyFail"
            => /\ UNCHANGED <<SessionVars, conns, sent, unpaused>>
               /\ UNCHANGED <<copyToast, buttonContent, buttonTimers>>
               /\ clipboardWrites' = clipboardWrites - 1
       /\ (copyToast = "hidden" /\ copyToast' = "shown") => last'.op = "copyOk"]_vars

\* C16 witness: a clipboard write has just failed while the session was paused
\* on a live connection with a chunk waiting, and no toast is shown
C16_Witness ==
    /\ last = Did("copyFail", 0)
    /\ es # 0
    /\ isPaused
    /\ messageBuffer # <<>>
    /\ copyToast = "hidden"

\* C17 (stated as claimed; the code violates it): once every timer of
\* launchTerminalWithButtonAnimation has fired, the control shows the content it
\* had before the first invocation.
C17_ButtonReverts == buttonTimers = <<>> => buttonContent = OriginalContent

\* the session state of the design, read off the fields of the instance:
\* Completed from handleStreamEnd until the next launch, otherwise by the
\* connection the session holds and by the pause flag
SessionState ==
    IF listeners = 0 THEN "Idle"
    ELSE IF streamEnded THEN "Completed"
    ELSE IF es = 0 THEN "Closed"
    ELSE IF isPaused THEN "Paused"
    ELSE IF conns[es].readyState = "open" THEN "Connected"
    ELSE "Connecting"

\* C18 (stated as claimed; the code violates it): messageBuffer is non-empty
\* only while the session is Paused.
C18_BufferOnlyWhilePaused == messageBuffer # <<>> => SessionState = "Paused"

\* C19 (stated as claimed; the code violates it): the pause flag is true only
\* while the session holds a connection, so that none of Connecting,
\* Connected, Paused holds in Idle, Completed or Closed.
C19_StateExclusivity == isPaused => es # 0

IsPrefix(p, l) == Len(p) <= Len(l) /\ SubSeq(l, 1, Len(p)) = p

\* C20: within a page load every handler other than launch leaves the previous
\* transcript as a prefix of the new one, so only a launch removes an entry.
C20_TranscriptOnlyGrows ==
    [][last'.op \notin {"launch", "reload"} => IsPrefix(log, log')]_vars

\* C20 witness: a resume has just appended two buffered chunks behind an entry
\* that was already in the transcript
C20_Witness ==
    /\ last = Did("pause", 2)
    /\ Len(log) >= 3
    /\ IsChunk(log[Len(log)])
    /\ IsChunk(log[Len(log) - 1])

\* C21: a message handled while isPaused is true is pushed onto the end of
\* messageBuffer and changes neither the transcript nor the scroll position
\* (nor anything else of the session).
C21_PausedChunkIsBuffered ==
    [][(last'.op = "message" /\ isPaused)
         => /\ messageBuffer' = Append(messageBuffer, Chunk(last'.arg, sent + 1))
            /\ UNCHANGED <<log, scrollTop, scrollEvt, autoscroll, toggleChecked>>
            /\ UNCHANGED <<es, isPaused, streamEnded, reloadOnClose, streamStatus>>]_vars

\* C21 witness: with one chunk rendered and the console then paused, the next
\* chunk has just been buffered and the transcript still has its one entry
C21_Witness ==
    /\ last.op = "message"
    /\ isPaused
    /\ Len(messageBuffer) = 1
    /\ messageBuffer[1].n = sent
    /\ Len(log) = 1
    /\ IsChunk(log[1])
    /\ scrollTop = MaxScrollTop(log)
    /\ modalState = "shown"

\* C22 (stated as claimed, for a page with a single launch; the code violates
\* it): from the stream end until the next launch the completion marker is the
\* last entry of the transcript.
C22_MarkerStaysLast ==
    (listeners = 1 /\ streamEnded) => (log # <<>> /\ IsMarker(log[Len(log)]))

\* C23 (stated as claimed; the code violates it): one click on the Pause/Resume
\* button flips isPaused exactly once.
C23_ClickFlipsOnce ==
    [][last'.op = "pause" => isPaused' = ~isPaused]_vars

\* C24 (stated as claimed; the code violates it): every chunk entry of the
\* transcript was delivered since the most recent launch, by the connection
\* which that launch opened.
C24_ChunkIsolation ==
    \A i \in 1..Len(log) :
        IsChunk(log[i]) => (log[i].div.from = "current" /\ InArrived(log[i].div))

\* C25 (stated as claimed; the code violates it): handleStreamEnd closes only
\* the connection that raised the signal, so in a step of onerror in which
\* close() is called on a connection no other connection changes.
C25_ClosesOnlyTheRaiser ==
    [][last'.op = "error"
         => \A c \in 1..Len(conns) :
                conns'[c].closes > conns[c].closes
                    => \A d \in 1..Len(conns) : d # c => conns'[d] = conns[d]]_vars

\* payload d is the payload of an entry of transcript l, or an element of buffer b
InLog(d, l) == \E i \in 1..Len(l) : l[i].div = d
InBuffer(d, b) == \E i \in 1..Len(b) : b[i] = d

\* C26: the dismissal's cleanup leaves the transcript as it is, messageBuffer
\* empty and es null; and a chunk enters the transcript only from messageBuffer
\* or straight from its delivery, so what cleanup discarded is never rendered
\* by a later resume.
C26_CleanupDiscardsBuffer ==
    [][/\ last'.op = "hidden"
            => (log' = log /\ messageBuffer' = <<>> /\ es' = 0)
       /\ \A i \in 1..Len(log') :
            IsChunk(log'[i])
                => \/ InLog(log'[i].div, log)
                   \/ InBuffer(log'[i].div, messageBuffer)
                   \/ (last'.op = "message" /\ log'[i].div.n = sent + 1)]_vars

\* C26 witness: the modal has just been hidden on a page with one launch where
\* both chunks arrived but neither was rendered: they were waiting in
\* messageBuffer and cleanup dropped them
C26_Witness ==
    /\ last.op = "hidden"
    /\ listeners = 1
    /\ sent = 2
    /\ log = <<>>
    /\ messageBuffer = <<>>
    /\ es = 0
    /\ isPaused

\* C27 (stated as claimed; the code violates it): when the operator has just
\* scrolled more than the tolerance away from bottom with autoscroll on and the
\* scroll event is still queued, a chunk delivered before the scroll listener
\* runs leaves the view where the operator put it.
C27_ScrollAwayWins ==
    [][(last.op = "scroll" /\ scrollEvt /\ FarFromBottom /\ autoscroll
            /\ last'.op = "message")
         => scrollTop' = scrollTop]_vars

\* C28: a change of the autoscroll toggle to on leaves autoscroll true and the
\* view at bottom; a change to off leaves autoscroll false and the scroll
\* position where it was; neither changes the transcript.
C28_SetAutoscroll ==
    [][last'.op = "toggle"
         => /\ toggleChecked' = ~toggleChecked
            /\ autoscroll' = toggleChecked'
            /\ log' = log
            /\ IF toggleChecked'
               THEN scrollTop' = MaxScrollTop(log)
               ELSE scrollTop' = scrollTop /\ scrollEvt' = scrollEvt]_vars

\* C28 witness: the toggle has just been switched on while the view was above
\* bottom, and the view is now at bottom
C28_Witness ==
    /\ last.op = "toggle"
    /\ last.arg < scrollTop
    /\ scrollTop = MaxScrollTop(log)
    /\ autoscroll
    /\ toggleChecked
    /\ scrollEvt

\* C29: the autoscroll toggle shows the value of this.autoscroll in every
\* state reached by toggle changes, scroll events, appends and launches.
C29_ToggleMirrorsAutoscroll == toggleChecked = autoscroll

\* C29 witness: a scroll event near bottom has just switched autoscroll back on
\* after it had been off, and the toggle is checked again
C29_Witness ==
    /\ last = Did("onscroll", 0)
    /\ autoscroll
    /\ toggleChecked
    /\ log # <<>>

\* C30 (stated as claimed; the code violates it): the status badge reads
\* 'Connecting...' while the session's connection is connecting, 'Connected'
\* while it is open, and 'Completed' from the stream end until the next launch.
C30_StatusMatchesState ==
    /\ SessionState = "Connecting" => streamStatus = "Connecting..."
    /\ SessionState = "Connected" => streamStatus = "Connected"
    /\ SessionState = "Completed" => streamStatus = "Completed"

\* C31: the clear of a launch runs in the same handler run as the creation of
\* the launch's connection: the step empties the transcript while the new
\* connection is still connecting and has delivered nothing; and from then
\* until the modal is hidden every chunk which that connection delivered is in
\* the transcript or waiting in messageBuffer.
C31_ClearNeverMidStream ==
    /\ [][last'.op = "launch"
            => /\ log' = <<>>
               /\ Len(conns') = Len(conns) + 1
               /\ es' = Len(conns')
               /\ conns'[es'].readyState = "connecting"
               /\ sent' = sent]_vars
    /\ [](modalState # "hidden"
            => \A i \in 1..Len(Arrived) :
                   Arrived[i].from = "current"
                       => InLog(Arrived[i], log) \/ InBuffer(Arrived[i], messageBuffer))

\* C31 witness: the first chunk was delivered before the second launch, whose
\* clear removed it; the second chunk, delivered by the second launch's
\* connection, is the transcript
C31_Witness ==
    /\ listeners = 2
    /\ sent = 2
    /\ ~isPaused
    /\ Arrived = <<[from |-> "current", n |-> 2]>>
    /\ log = <<ansi_to_html([from |-> "current", n |-> 2])>>

\* C32 (stated as claimed; the code violates it): once cleanup has run and the
\* modal is hidden, no timer of a confirmation toast shown for the session is
\* pending.
C32_TeardownCancelsTimers == Dismissed => copyToast = "hidden"

\* C33 (stated as claimed; the code violates it): when a save of saveCurrentFile
\* has just succeeded and hasUnsavedChanges is false, originalContent is the
\* content which that save sent to the server.
C33_SavedContentIsOriginal ==
    (last.op = "saved" /\ ~ hasUnsavedChanges) => originalContent = last.arg

\* C34 (stated as claimed; the code violates it): when a content response has
\* just filled the editor and no other content fetch is in flight, the editor
\* and originalContent hold the content of currentFile.
C34_EditorBelongsToCurrentFile ==
    (last.op = "loaded" /\ loads = EmptyBag) => editorFile = currentFile

\* C35: while hasUnsavedChanges is true navigateToPath and selectFile change
\* neither the location nor currentFile and only record the deferral and show
\* the modal; the location and currentFile change otherwise only in the success
\* handler of saveAndProceed or in discardChanges, to the target of the pending
\* deferral; both leave no deferral pending, so a deferral runs at most once;
\* a failed save leaves the deferral, the modal, the location and currentFile as
\* they were.
C35_UnsavedChangesGuard ==
    [][/\ (last'.op \in {"navigate", "select"} /\ hasUnsavedChanges)
            => /\ UNCHANGED <<location, currentFile, loads, saves, editor,
                              originalContent, hasUnsavedChanges>>
               /\ pendingNavigation'.kind # "none"
               /\ unsavedModalShown'
       /\ (location' # location \/ currentFile' # currentFile)
            => \/ last'.op \in {"navigate", "select"} /\ ~ hasUnsavedChanges
               \/ /\ last'.op \in {"proceeded", "discard"}
                  /\ pendingNavigation.kind = "function"
                  /\ currentFile' = pendingNavigation.to
                  /\ location' = location
               \/ /\ last'.op \in {"proceeded", "discard"}
                  /\ pendingNavigation.kind = "path"
                  /\ location' = pendingNavigation.to
                  /\ currentFile' = Null
       /\ last'.op \in {"proceeded", "discard"}
            => (pendingNavigation' = NoNavigation /\ ~ unsavedModalShown')
       /\ last'.op = "proceedFailed"
            => UNCHANGED <<pendingNavigation, unsavedModalShown, location,
                           currentFile, loads, hasUnsavedChanges>>]_vars

\* C35 witness: the successful save of saveAndProceed has just run a deferred
\* file selection: the selected file is being fetched while the editor still
\* holds the file that was saved, and no deferral is pending
C35_Witness ==
    /\ last = Did("proceeded", 0)
    /\ editorFile # Null
    /\ currentFile # editorFile
    /\ BagIn(currentFile, loads)
    /\ pendingNavigation = NoNavigation
    /\ ~ unsavedModalShown
    /\ ~ hasUnsavedChanges

\* C36: between two showDeleteConfirmation calls the confirm listener calls
\* serviceActionWithTerminal at most once, with the url (and the name) passed
\* to the most recent showDeleteConfirmation; once it has, deleteServiceUrl is
\* null, and a confirm click that finds it null changes nothing of the dialog
\* or of the console; a click that finds a url launches exactly one session.
C36_DeleteLaunchesOnce ==
    /\ [](/\ Len(deleteLaunched) <= 1
          /\ deleteLaunched # <<>>
                => (deleteLaunched[1].streamUrl = shownUrl /\ deleteServiceUrl = Null)
          /\ deleteServiceUrl # Null => deleteServiceUrl = shownUrl)
    /\ [][last'.op = "confirmDelete"
            => IF deleteServiceUrl = Null
               THEN UNCHANGED <<consoleVars, deleteVars>>
               ELSE /\ listeners' = listeners + 1
                    /\ Len(conns') = Len(conns) + 1
                    /\ deleteLaunched' = <<[streamUrl |-> shownUrl,
                                            actionTitle |-> deleteServiceName]>>
                    /\ deleteServiceUrl' = Null
                    /\ ~ deleteModalShown']_vars

\* C36 witness: after a confirmed deletion launched its session, a further
\* click on the confirm button has just done nothing
C36_Witness ==
    /\ last = Did("confirmDelete", 0)
    /\ Len(deleteLaunched) = 1
    /\ deleteLaunched[1].streamUrl = shownUrl
    /\ deleteServiceUrl = Null
    /\ listeners = 1
    /\ Len(conns) = 1

====
